---- MODULE Spec2Model ----
(***************************************************************************)
(* Model of iomanip_centered.h: the centered() stream formatter.           *)
(*                                                                         *)
(* A sink is a std::basic_ostream: the characters written so far, the      *)
(* pending field width, the fill character and the adjustfield flag.  A    *)
(* request is a center_helper holding the converted text str_.             *)
(* Text is a sequence of one-character strings.                            *)
(***************************************************************************)
EXTENDS Integers, Sequences, FiniteSets, TLC

\* ---------------------------------------------------------------- bounds
MaxWidth  == 4      \* widths passed to setw are 0..MaxWidth
MaxWrites == 2      \* at most MaxWrites centered writes reach one sink

\* std::to_string(float|double) formats with "%f": six fractional digits
FracDigits == 6

VARIABLES
    out,        \* characters written to the sink s so far
    width,      \* s.width(): the pending field width
    fill,       \* s.fill(): the fill character
    adjust,     \* s.flags() & adjustfield; "right" also stands for no flag set,
                \* which the stream treats the same way
    str_,       \* center_helper::str_ of the current request
    val,        \* the value the current request was built from
    st,         \* the current request: "none", "constructed" or "consumed"
    writes,     \* the number of centered writes s has received
    directive,  \* the width set by setw since the last centered write, else 0
    expected    \* concatenation of what each centered write produces alone

vars == <<out, width, fill, adjust, str_, val, st, writes, directive, expected>>

\* ------------------------------------------------------------ input sets
Fills   == {" ", "*"}
Adjusts == {"left", "right", "internal"}
Widths  == 0..MaxWidth

IntKinds   == {"schar", "uchar", "short", "ushort", "int", "uint",
               "long", "ulong", "llong", "ullong"}
FloatKinds == {"float", "double"}

\* A value: its kind, its text (kind "string"), its number (a character code
\* for kind "char", an integer for IntKinds, millionths for FloatKinds).
Value(k, s, n) == [kind |-> k, s |-> s, n |-> n]
NoValue == Value("none", <<>>, 0)

Values ==
    { Value("string", <<"a", "b", "c">>, 0),
      Value("char", <<>>, 119),
      Value("schar", <<>>, -10),
      Value("uchar", <<>>, 10),
      Value("long", <<>>, 2020),
      Value("float", <<>>, 10000000) }

\* ------------------------------------------------------- value to text
Digits == <<"0", "1", "2", "3", "4", "5", "6", "7", "8", "9">>

\* the character with a given code: 119 is 'w'; 246 is the byte of (char)-10,
\* which has no printable form and is shown as "?"
Chr(c) == CASE c = 119 -> "w"
            [] c = 246 -> "?"

RECURSIVE NatToString(_)
NatToString(n) ==
    IF n < 10 THEN <<Digits[n + 1]>>
    ELSE Append(NatToString(n \div 10), Digits[(n % 10) + 1])

\* std::to_string of an integer: decimal digits, '-' first when negative
IntToString(n) ==
    IF n < 0 THEN <<"-">> \o NatToString(-n) ELSE NatToString(n)

RECURSIVE Pow10(_)
Pow10(k) == IF k = 0 THEN 1 ELSE 10 * Pow10(k - 1)

RECURSIVE FracToString(_, _)
FracToString(f, k) ==
    IF k = 0 THEN <<>>
    ELSE Append(FracToString(f \div 10, k - 1), Digits[(f % 10) + 1])

\* std::to_string of a floating value given in millionths: "%f"
FloatToString(m) ==
    LET a == IF m < 0 THEN -m ELSE m
        unit == Pow10(FracDigits)
    IN  (IF m < 0 THEN <<"-">> ELSE <<>>)
        \o NatToString(a \div unit) \o <<".">> \o FracToString(a % unit, FracDigits)

\* centered(signed char) written as centered(char): the value as one character
CenteredNarrowAsChar(v) ==
    CASE v.kind = "string" -> v.s
      [] v.kind = "char" -> <<Chr(v.n)>>
      [] v.kind \in {"schar", "uchar"} ->
            <<Chr(IF v.n = 119 THEN 119 ELSE 246)>>
      [] v.kind \in IntKinds \ {"schar", "uchar"} -> IntToString(v.n)
      [] v.kind \in FloatKinds -> FloatToString(v.n)

\* centered(v): the text the center_helper holds
Centered(v) ==
    CASE v.kind = "string" -> v.s
      [] v.kind = "char" -> <<Chr(v.n)>>
      [] v.kind \in IntKinds -> IntToString(v.n)
      [] v.kind \in FloatKinds -> FloatToString(v.n)

\* ------------------------------------------------------------- the sink
Sink(o, w, f, a) == [out |-> o, width |-> w, fill |-> f, adjust |-> a]

RECURSIVE Fill(_, _)
Fill(k, f) == IF k <= 0 THEN <<>> ELSE <<f>> \o Fill(k - 1, f)

Max(a, b) == IF a > b THEN a ELSE b

\* s.width(w)
SetW(s, w) == [s EXCEPT !.width = w]

\* s << str for a string: padded to s.width() with s.fill(), after the text
\* when adjustfield is left and before it otherwise; then width(0)
Insert(s, str) ==
    LET pad == Fill(s.width - Len(str), s.fill)
    IN  [s EXCEPT !.out = IF s.adjust = "left" THEN s.out \o str \o pad
                                               ELSE s.out \o pad \o str,
                  !.width = 0]

\* operator<< with the right segment's width set to w instead of w - left
ConsumeSinkWideRight(s, str) ==
    LET w == s.width
    IN  IF w > Len(str)
        THEN LET left == (w + Len(str)) \div 2
             IN  Insert(SetW(Insert(SetW(s, left), str), w), <<>>)
        ELSE Insert(s, str)

\* operator<< that cuts the text down to the width when it does not fit
ConsumeSinkTruncate(s, str) ==
    LET w == s.width
    IN  IF w > Len(str)
        THEN LET left == (w + Len(str)) \div 2
             IN  Insert(SetW(Insert(SetW(s, left), str), w - left), <<>>)
        ELSE Insert(s, IF w > 0 THEN SubSeq(str, 1, w) ELSE str)

\* operator<< without the final s << "": the right width stays pending
ConsumeSinkNoFlush(s, str) ==
    LET w == s.width
    IN  IF w > Len(str)
        THEN LET left == (w + Len(str)) \div 2
             IN  SetW(Insert(SetW(s, left), str), w - left)
        ELSE Insert(s, str)

\* operator<< whose unpadded branch writes the text unformatted (s.write):
\* the pending width is not consumed
ConsumeSinkRawElse(s, str) ==
    LET w == s.width
    IN  IF w > Len(str)
        THEN LET left == (w + Len(str)) \div 2
             IN  Insert(SetW(Insert(SetW(s, left), str), w - left), <<>>)
        ELSE [s EXCEPT !.out = s.out \o str]

\* operator<< that first sets the fill character to a blank (s.fill(' '))
ConsumeSinkBlankFill(s, str) ==
    LET w == s.width
        b == [s EXCEPT !.fill = " "]
    IN  IF w > Len(str)
        THEN LET left == (w + Len(str)) \div 2
             IN  Insert(SetW(Insert(SetW(b, left), str), w - left), <<>>)
        ELSE Insert(b, str)

\* operator<< with left rounded up: left = (w + length + 1) / 2
ConsumeSinkRoundUp(s, str) ==
    LET w == s.width
    IN  IF w > Len(str)
        THEN LET left == (w + Len(str) + 1) \div 2
             IN  Insert(SetW(Insert(SetW(s, left), str), w - left), <<>>)
        ELSE Insert(s, str)

\* operator<<(basic_ostream& s, const center_helper& c), on the sink alone
ConsumeSink(s, str) ==
    LET w == s.width
    IN  IF w > Len(str)
        THEN LET left == (w + Len(str)) \div 2
             IN  Insert(SetW(Insert(SetW(s, left), str), w - left), <<>>)
        ELSE Insert(s, str)

\* What one centered write of text t after setw(w) produces on its own, on a
\* sink with the same fill character and adjustment and nothing written yet.
Alone(w, t) == ConsumeSink(Sink(<<>>, w, fill, adjust), t).out

\* ---------------------------------------------------------------- state
Init ==
    /\ out = <<>>
    /\ width = 0
    /\ fill \in Fills
    /\ adjust \in Adjusts
    /\ str_ = <<>>
    /\ val = NoValue
    /\ st = "none"
    /\ writes = 0
    /\ directive = 0
    /\ expected = <<>>

\* s << std::setw(x)
SetWidth(x) ==
    /\ width' = x
    /\ directive' = x
    /\ UNCHANGED <<out, fill, adjust, str_, val, st, writes, expected>>

\* centered(v): a new center_helper holding the text of v
Wrap(v) ==
    /\ val' = v
    /\ str_' = Centered(v)
    /\ st' = "constructed"
    /\ UNCHANGED <<out, width, fill, adjust, writes, directive, expected>>

\* s << c that takes the text out of the request (std::move of c.str_)
ConsumeMovesText ==
    /\ st # "none"
    /\ writes < MaxWrites
    /\ LET r == ConsumeSink(Sink(out, width, fill, adjust), str_)
       IN  /\ out' = r.out
           /\ width' = r.width
           /\ fill' = r.fill
           /\ adjust' = r.adjust
    /\ st' = "consumed"
    /\ writes' = writes + 1
    /\ str_' = <<>>
    /\ directive' = 0
    /\ expected' = expected \o Alone(directive, str_)
    /\ UNCHANGED val

\* s << c for the current request c
Consume ==
    /\ st # "none"
    /\ writes < MaxWrites
    /\ LET r == ConsumeSink(Sink(out, width, fill, adjust), str_)
       IN  /\ out' = r.out
           /\ width' = r.width
           /\ fill' = r.fill
           /\ adjust' = r.adjust
    /\ st' = "consumed"
    /\ writes' = writes + 1
    /\ directive' = 0
    /\ expected' = expected \o Alone(directive, str_)
    /\ UNCHANGED <<str_, val>>

Next ==
    \/ \E x \in Widths : SetWidth(x)
    \/ \E v \in Values : Wrap(v)
    \/ Consume

Spec == Init /\ [][Next]_vars

TypeOK ==
    /\ width \in Widths
    /\ fill \in Fills
    /\ adjust \in Adjusts
    /\ st \in {"none", "constructed", "consumed"}
    /\ writes \in 0..MaxWrites
    /\ val \in Values \cup {NoValue}

\* ------------------------------------------------------------ properties
\* a step that is a centered write
IsConsume == writes' = writes + 1

\* the padded branch's left, for the pending width and the request's text
LeftOf(w, n) == (w + n) \div 2

\* the first and only write so far was of the current request
WroteOnce == st = "consumed" /\ writes = 1

RECURSIVE ParseNat(_)
ParseNat(s) ==
    IF Len(s) = 0 THEN 0
    ELSE 10 * ParseNat(SubSeq(s, 1, Len(s) - 1))
         + (CHOOSE d \in 0..9 : Digits[d + 1] = s[Len(s)])

\* the number a canonical decimal text denotes
ParseInt(s) == IF s[1] = "-" THEN 0 - ParseNat(Tail(s)) ELSE ParseNat(s)

IsDecimal(s) ==
    LET body == IF Len(s) > 0 /\ s[1] = "-" THEN Tail(s) ELSE s
    IN  /\ Len(body) > 0
        /\ \A i \in 1..Len(body) : \E d \in 0..9 : Digits[d + 1] = body[i]
        /\ Len(body) > 1 => body[1] # "0"

\* C1 as stated: when w > n and w - n is odd, a centered write puts one more
\* fill character before the text than after it.
C1_ExtraUnitLeft ==
    [][IsConsume /\ width > Len(str_) /\ (width - Len(str_)) % 2 = 1
        => \E b \in 0..MaxWidth :
              out' = out \o Fill(b + 1, fill) \o str_ \o Fill(b, fill)]_vars

\* C1 amended: when w > n and w - n is odd, the extra fill character is after
\* the text: the w - n fill characters written are split with more after the
\* text than before it, exactly one more unless the sink is left-adjusted (then
\* all of them follow the text).
C1_ExtraUnitRight ==
    [][IsConsume /\ width > Len(str_) /\ (width - Len(str_)) % 2 = 1
        => \E a, b \in 0..MaxWidth :
              /\ out' = out \o Fill(a, fill) \o str_ \o Fill(b, fill)
              /\ a + b = width - Len(str_)
              /\ b > a
              /\ adjust # "left" => b = a + 1
              /\ adjust = "left" => a = 0]_vars

\* a first write padded by an odd number of fill characters, the last one
\* after the text, on a sink that is not left-adjusted
C1_Witness ==
    /\ WroteOnce
    /\ adjust # "left"
    /\ Len(out) > Len(str_)
    /\ (Len(out) - Len(str_)) % 2 = 1
    /\ out[Len(out)] = fill

\* C2: a centered write appends exactly max(w, n) characters.
C2_Length ==
    [][IsConsume => Len(out') = Len(out) + Max(width, Len(str_))]_vars

C2_Witness ==
    /\ WroteOnce
    /\ Len(str_) > 0
    /\ Len(out) = Len(str_) + 2

\* C3: with w <= n a centered write appends the text and nothing else.
C3_Verbatim ==
    [][IsConsume /\ width <= Len(str_) => out' = out \o str_]_vars

\* a text longer than every width was written whole
C3_Witness ==
    /\ WroteOnce
    /\ Len(str_) > MaxWidth
    /\ out = str_

C5_WidthCleared ==
    [][IsConsume => width' = 0]_vars

\* a padded write has happened and no width is pending
C5_Witness ==
    /\ WroteOnce
    /\ Len(out) > Len(str_)
    /\ width = 0

\* C6: the sink's output is the concatenation, in program order, of what each
\* centered write produces alone with the width directive given for it (0 when
\* none was given since the previous centered write).
C6_Concatenation == out = expected

\* two writes, the first padded, the second with no directive and unpadded
C6_Witness ==
    /\ writes = 2
    /\ st = "consumed"
    /\ directive = 0
    /\ adjust # "left"
    /\ Len(str_) > 0
    /\ Len(out) > 2 * Len(str_)
    /\ SubSeq(out, Len(out) - Len(str_) + 1, Len(out)) = str_

\* C7: a centered write leaves the request's text as wrap made it, and what it
\* appends is determined by the wrapped value and the pending width.
C7_TextImmutable ==
    [][IsConsume
        => /\ str_' = str_
           /\ str_' = Centered(val')
           /\ out' = out \o Alone(width, Centered(val))]_vars

\* the same padded output was appended twice
C7_Witness ==
    /\ writes = 2
    /\ st = "consumed"
    /\ Len(out) > 2 * Len(str_)
    /\ Len(out) % 2 = 0
    /\ LET h == Len(out) \div 2
       IN  /\ SubSeq(out, 1, h) = SubSeq(out, h + 1, 2 * h)
           /\ \E i \in 1..(h - Len(str_) + 1) :
                 SubSeq(out, i, i + Len(str_) - 1) = str_

\* C8: what a centered write puts around the text is made of the sink's fill
\* character only, and the write leaves the fill character unchanged.
C8_FillOnly ==
    [][IsConsume
        => /\ fill' = fill
           /\ \E a, b \in 0..MaxWidth :
                 out' = out \o Fill(a, fill) \o str_ \o Fill(b, fill)]_vars

\* a write padded with a fill character that is not the blank
C8_Witness ==
    /\ WroteOnce
    /\ fill = "*"
    /\ Len(out) > Len(str_)
    /\ \E i \in 1..Len(out) : out[i] = "*"

\* C9: the request holds a string unchanged, a plain char as the one-character
\* string of that character, and every integer kind (signed and unsigned char
\* included) as the canonical decimal text of its value.
C9_ConversionByKind ==
    st # "none" =>
        /\ val.kind = "string" => str_ = val.s
        /\ val.kind = "char" => str_ = <<Chr(val.n)>>
        /\ val.kind \in IntKinds => IsDecimal(str_) /\ ParseInt(str_) = val.n
        /\ val = Value("schar", <<>>, -10) => str_ = <<"-", "1", "0">>
        /\ val = Value("uchar", <<>>, 10) => str_ = <<"1", "0">>

C9_Witness ==
    /\ st = "constructed"
    /\ val.kind = "schar"
    /\ Len(str_) = 3

\* C10 as stated: with w > n the text starts left - n characters into the
\* field whatever the sink's adjustment, and the adjustment is unchanged.
C10_PlacementAnyAdjust ==
    [][IsConsume /\ width > Len(str_)
        => LET n == Len(str_)
               left == LeftOf(width, n)
           IN  /\ adjust' = adjust
               /\ SubSeq(out', Len(out) + 1, Len(out) + left)
                     = Fill(left - n, fill) \o str_]_vars

====
